---- MODULE Spec2Model ----
(***************************************************************************)
(* Gateway collector configuration of odigos.                              *)
(*                                                                         *)
(*  - the destination adapters (Quickwit, NewRelic, Sentry, Splunk,        *)
(*    GrafanaCloudLoki, GrafanaCloudPrometheus): ModifyConfig on the       *)
(*    merged collector configuration, specification Spec;                  *)
(*  - the reconciliation pass gateway.Sync / syncGateway, specification    *)
(*    SyncSpec.                                                            *)
(*                                                                         *)
(* Strings that the code concatenates into component names are sequences   *)
(* of characters, so that "a" + "b" is \o.  Field values (URLs, JSON       *)
(* texts) are sequences of lexical tokens.                                 *)
(***************************************************************************)
EXTENDS Integers, Sequences, FiniteSets, TLC

VARIABLES
    currentConfig,   \* *commonconf.Config threaded through the ModifyConfig calls
    processed,       \* the destinations ModifyConfig was called on, in call order
    before,          \* currentConfig at the entry of the last ModifyConfig call
    pc,              \* position of the reconciliation pass
    collectorGroups, \* the CollectorsGroup items of the cluster (their Spec.Role)
    listed,          \* collectorGroups.Items as returned by client.List in this pass
    calls,           \* the cluster I/O calls of this pass, in order, with their outcome
    err,             \* the value Sync returns ("nil" or the failing call's error)
    dep,             \* the Deployment returned by syncDeployment
    cluster,         \* the cluster objects the pass owns
    startCluster,    \* cluster at the start of the pass
    passes           \* passes started so far

synthVars == <<currentConfig, processed, before>>
syncVars == <<pc, collectorGroups, listed, calls, err, dep, cluster, startCluster, passes>>
vars == <<currentConfig, processed, before, pc, collectorGroups, listed, calls, err, dep,
          cluster, startCluster, passes>>

\* -------------------------------------------------------------------------
\* Bounds
\* -------------------------------------------------------------------------
MaxDests == 2
MaxPasses == 2
MaxGroups == 2
MaxReplicas == 2

\* -------------------------------------------------------------------------
\* Go values
\* -------------------------------------------------------------------------
\* an empty Go map
EmptyMap == [k \in {} |-> <<>>]

\* m[k] = v
Put(m, k, v) == [x \in (DOMAIN m) \cup {k} |-> IF x = k THEN v ELSE m[x]]

\* v, exists := m[k]
Has(m, k) == k \in DOMAIN m

\* m[k]: the zero value "" when the key is absent
Get(m, k) == IF k \in DOMAIN m THEN m[k] ELSE <<>>

\* the orders in which `for k, v := range m` may visit the keys of m
RangeOrders(m) ==
    {s \in [1..Cardinality(DOMAIN m) -> DOMAIN m] : \A i, j \in DOMAIN s : i # j => s[i] # s[j]}

\* strings.Contains(s, sub) on a token sequence
Contains(s, tok) == \E i \in DOMAIN s : s[i] = tok

Tail2(s) == SubSeq(s, 3, Len(s))

\* -------------------------------------------------------------------------
\* Destinations
\* -------------------------------------------------------------------------
QuickwitDestinationType == "quickwit"
NewRelicDestinationType == "newrelic"
SentryDestinationType == "sentry"
SplunkDestinationType == "splunk"
GrafanaCloudLokiDestinationType == "grafanacloudloki"
GrafanaCloudPrometheusDestinationType == "grafanacloudprometheus"

qwUrlKey == "QUICKWIT_URL"
newRelicEndpoint == "NEWRELIC_ENDPOINT"
splunkRealm == "SPLUNK_REALM"
grafanaCloudLokiEndpointKey == "GRAFANA_CLOUD_LOKI_ENDPOINT"
grafanaCloudLokiUsernameKey == "GRAFANA_CLOUD_LOKI_USERNAME"
grafanaCloudLokiLabelsKey == "GRAFANA_CLOUD_LOKI_LABELS"
grafanaCloudPrometheusRWurlKey == "GRAFANA_CLOUD_PROMETHEUS_RW_ENDPOINT"
grafanaCloudPrometheusUserKey == "GRAFANA_CLOUD_PROMETHEUS_USERNAME"
prometheusResourceAttributesLabelsKey == "PROMETHEUS_RESOURCE_ATTRIBUTES_LABELS"
prometheusExternalLabelsKey == "PROMETHEUS_RESOURCE_EXTERNAL_LABELS"

TRACES == "TRACES"
METRICS == "METRICS"
LOGS == "LOGS"

\* the signals a destination type declares it can receive
SupportedSignals(type) ==
    CASE type = QuickwitDestinationType -> {TRACES, LOGS}
      [] type = NewRelicDestinationType -> {TRACES, METRICS, LOGS}
      [] type = SentryDestinationType -> {TRACES}
      [] type = SplunkDestinationType -> {TRACES}
      [] type = GrafanaCloudLokiDestinationType -> {LOGS}
      [] type = GrafanaCloudPrometheusDestinationType -> {METRICS}

isTracingEnabled(dest) == TRACES \in SupportedSignals(dest.Type) /\ TRACES \in dest.Signals
isMetricsEnabled(dest) == METRICS \in SupportedSignals(dest.Type) /\ METRICS \in dest.Signals
isLoggingEnabled(dest) == LOGS \in SupportedSignals(dest.Type) /\ LOGS \in dest.Signals

\* -------------------------------------------------------------------------
\* net/url and encoding/json on token sequences
\* -------------------------------------------------------------------------
PathTokens == {"/loki/api/v1/push", "/api/prom/push", "/other"}
UserInfoTokens == {"u:p"}
Host == "logs-prod-012.grafana.net"
NoUser == <<>>

\* url.Parse: [err, Scheme, User, Host, Path]; User = NoUser is a nil *Userinfo
urlParse(raw) ==
    IF Contains(raw, "%zz") \/ (Len(raw) > 0 /\ raw[1] = " " /\ Contains(raw, "://"))
    THEN [err |-> TRUE, Scheme |-> "", User |-> NoUser, Host |-> <<>>, Path |-> <<>>]
    ELSE IF Len(raw) >= 2 /\ raw[2] = "://"
    THEN LET rest == Tail2(raw)
             hasUser == Len(rest) >= 2 /\ rest[2] = "@"
             afterUser == IF hasUser THEN Tail2(rest) ELSE rest
             hasHost == Len(afterUser) >= 1 /\ afterUser[1] \notin PathTokens
         IN  [err |-> FALSE,
              Scheme |-> raw[1],
              User |-> IF hasUser THEN <<rest[1]>> ELSE NoUser,
              Host |-> IF hasHost THEN <<afterUser[1]>> ELSE <<>>,
              Path |-> IF hasHost THEN Tail(afterUser) ELSE afterUser]
    ELSE IF Len(raw) >= 1 /\ raw[1] \in UserInfoTokens
    THEN \* "u:p@host/..." parses as scheme "u" with an opaque rest
         [err |-> FALSE, Scheme |-> "u", User |-> NoUser, Host |-> <<>>, Path |-> <<>>]
    ELSE [err |-> FALSE, Scheme |-> "", User |-> NoUser, Host |-> <<>>, Path |-> raw]

\* (*url.URL).String()
urlString(u) ==
    <<u.Scheme, "://">> \o (IF u.User # NoUser THEN u.User \o <<"@">> ELSE <<>>) \o u.Host \o u.Path

\* strings.TrimSpace
TrimSpace(raw) ==
    LET l == IF Len(raw) > 0 /\ raw[1] = " " THEN Tail(raw) ELSE raw
    IN  IF Len(l) > 0 /\ l[Len(l)] = " " THEN SubSeq(l, 1, Len(l) - 1) ELSE l

JsonPunct == {"[", "]", "{", "}", ",", ":"}
JsonBare == {"oops"}
IsJsonString(tok) == tok \notin JsonPunct /\ tok \notin JsonBare

\* json.Unmarshal into []string: [err, value]
jsonUnmarshalStrings(raw) ==
    LET n == Len(raw)
        inner == SubSeq(raw, 2, n - 1)
        ok == /\ n >= 2 /\ raw[1] = "[" /\ raw[n] = "]"
              /\ (Len(inner) = 0 \/ Len(inner) % 2 = 1)
              /\ \A i \in DOMAIN inner :
                    IF i % 2 = 1 THEN IsJsonString(inner[i]) ELSE inner[i] = ","
    IN  IF ok THEN [err |-> FALSE, value |-> [i \in 1..((Len(inner) + 1) \div 2) |-> inner[2 * i - 1]]]
        ELSE [err |-> TRUE, value |-> <<>>]

\* json.Unmarshal into map[string]string: [err, value]
jsonUnmarshalMap(raw) ==
    LET n == Len(raw)
        inner == SubSeq(raw, 2, n - 1)
        ok == /\ n >= 2 /\ raw[1] = "{" /\ raw[n] = "}"
              /\ (Len(inner) = 0 \/ Len(inner) % 4 = 3)
              /\ \A i \in DOMAIN inner :
                    CASE i % 4 = 1 -> IsJsonString(inner[i])
                      [] i % 4 = 2 -> inner[i] = ":"
                      [] i % 4 = 3 -> IsJsonString(inner[i])
                      [] OTHER -> inner[i] = ","
        keys == {inner[i] : i \in {j \in DOMAIN inner : j % 4 = 1}}
        lastOf(k) == CHOOSE i \in DOMAIN inner :
                        /\ i % 4 = 1 /\ inner[i] = k
                        /\ \A j \in DOMAIN inner : (j % 4 = 1 /\ inner[j] = k) => j <= i
    IN  IF ok THEN [err |-> FALSE, value |-> [k \in keys |-> inner[lastOf(k) + 2]]]
        ELSE [err |-> TRUE, value |-> EmptyMap]

\* -------------------------------------------------------------------------
\* commonconf.Config
\* -------------------------------------------------------------------------
\* commonconf.Pipeline{Processors: ..., Exporters: ...}
Pipeline(processors, exporters) == [Processors |-> processors, Exporters |-> exporters]

\* the merged configuration the synthesis pass starts from
EmptyConfig ==
    [Exporters |-> EmptyMap, Processors |-> EmptyMap, Extensions |-> EmptyMap,
     Service |-> [Extensions |-> <<>>, Pipelines |-> EmptyMap]]

\* -------------------------------------------------------------------------
\* Quickwit
\* -------------------------------------------------------------------------
\* "otlp/quickwit-" + dest.Name
quickwitExporterName(dest) ==
    <<"o", "t", "l", "p", "/", "q", "u", "i", "c", "k", "w", "i", "t", "-">> \o dest.Name

\* "traces/quickwit-" + dest.Name
quickwitTracesPipelineName(dest) ==
    <<"t", "r", "a", "c", "e", "s", "/", "q", "u", "i", "c", "k", "w", "i", "t", "-">> \o dest.Name

\* "logs/quickwit-" + dest.Name
quickwitLogsPipelineName(dest) ==
    <<"l", "o", "g", "s", "/", "q", "u", "i", "c", "k", "w", "i", "t", "-">> \o dest.Name

QuickwitModifyConfig(dest, cfg) ==
    IF Has(dest.Data, qwUrlKey)
    THEN LET url == dest.Data[qwUrlKey]
             exporterName == quickwitExporterName(dest)
             c1 == [cfg EXCEPT !.Exporters =
                        Put(@, exporterName, [endpoint |-> url, tls |-> [insecure |-> TRUE]])]
             c2 == IF isTracingEnabled(dest)
                   THEN [c1 EXCEPT !.Service.Pipelines =
                            Put(@, quickwitTracesPipelineName(dest), Pipeline(<<>>, <<exporterName>>))]
                   ELSE c1
         IN  IF isLoggingEnabled(dest)
             THEN [c2 EXCEPT !.Service.Pipelines =
                      Put(@, quickwitLogsPipelineName(dest), Pipeline(<<>>, <<exporterName>>))]
             ELSE c2
    ELSE cfg

\* -------------------------------------------------------------------------
\* New Relic
\* -------------------------------------------------------------------------
\* "otlp/newrelic-" + dest.Name
newRelicExporterName(dest) ==
    <<"o", "t", "l", "p", "/", "n", "e", "w", "r", "e", "l", "i", "c", "-">> \o dest.Name

\* "traces/newrelic-" + dest.Name
newRelicTracesPipelineName(dest) ==
    <<"t", "r", "a", "c", "e", "s", "/", "n", "e", "w", "r", "e", "l", "i", "c", "-">> \o dest.Name

\* "metrics/newrelic-" + dest.Name
newRelicMetricsPipelineName(dest) ==
    <<"m", "e", "t", "r", "i", "c", "s", "/", "n", "e", "w", "r", "e", "l", "i", "c", "-">> \o dest.Name

\* "logs/newrelic-" + dest.Name
newRelicLogsPipelineName(dest) ==
    <<"l", "o", "g", "s", "/", "n", "e", "w", "r", "e", "l", "i", "c", "-">> \o dest.Name

\* ModifyConfig after the endpoint lookup
NewRelicContribute(dest, cfg) ==
    LET endpoint == Get(dest.Data, newRelicEndpoint)
        exporterName == newRelicExporterName(dest)
        c1 == [cfg EXCEPT !.Exporters =
                   Put(@, exporterName,
                       [endpoint |-> endpoint \o <<":4317">>,
                        headers |-> [h \in {"api-key"} |-> "${NEWRELIC_API_KEY}"]])]
        c2 == IF isTracingEnabled(dest)
              THEN [c1 EXCEPT !.Service.Pipelines =
                       Put(@, newRelicTracesPipelineName(dest), Pipeline(<<>>, <<exporterName>>))]
              ELSE c1
        c3 == IF isMetricsEnabled(dest)
              THEN [c2 EXCEPT !.Service.Pipelines =
                       Put(@, newRelicMetricsPipelineName(dest), Pipeline(<<>>, <<exporterName>>))]
              ELSE c2
    IN  IF isLoggingEnabled(dest)
        THEN [c3 EXCEPT !.Service.Pipelines =
                 Put(@, newRelicLogsPipelineName(dest), Pipeline(<<>>, <<exporterName>>))]
        ELSE c3

\* a ModifyConfig that lost its `if !exists { return }`
NewRelicModifyConfigUnchecked(dest, cfg) == NewRelicContribute(dest, cfg)

NewRelicModifyConfig(dest, cfg) ==
    IF ~Has(dest.Data, newRelicEndpoint) THEN cfg ELSE NewRelicContribute(dest, cfg)

\* -------------------------------------------------------------------------
\* Sentry
\* -------------------------------------------------------------------------
\* "sentry/" + dest.Name
sentryExporterName(dest) ==
    <<"s", "e", "n", "t", "r", "y", "/">> \o dest.Name

\* "traces/sentry-" + dest.Name
sentryTracesPipelineName(dest) ==
    <<"t", "r", "a", "c", "e", "s", "/", "s", "e", "n", "t", "r", "y", "-">> \o dest.Name

SentryModifyConfig(dest, cfg) ==
    IF ~isTracingEnabled(dest)
    THEN cfg
    ELSE LET exporterName == sentryExporterName(dest)
         IN  [cfg EXCEPT
                !.Exporters = Put(@, exporterName, [dsn |-> "${DSN}"]),
                !.Service.Pipelines =
                    Put(@, sentryTracesPipelineName(dest), Pipeline(<<>>, <<exporterName>>))]

\* -------------------------------------------------------------------------
\* Splunk
\* -------------------------------------------------------------------------
\* "sapm/" + dest.Name
splunkExporterName(dest) ==
    <<"s", "a", "p", "m", "/">> \o dest.Name

\* a pipeline name that lost its separator: "traces/splunk" + dest.Name
splunkTracesPipelineNameNoDash(dest) ==
    <<"t", "r", "a", "c", "e", "s", "/", "s", "p", "l", "u", "n", "k">> \o dest.Name

\* "traces/splunk-" + dest.Name
splunkTracesPipelineName(dest) ==
    <<"t", "r", "a", "c", "e", "s", "/", "s", "p", "l", "u", "n", "k", "-">> \o dest.Name

SplunkModifyConfig(dest, cfg) ==
    IF ~Has(dest.Data, splunkRealm)
    THEN cfg
    ELSE IF isTracingEnabled(dest)
    THEN LET realm == dest.Data[splunkRealm]
             exporterName == splunkExporterName(dest)
         IN  [cfg EXCEPT
                !.Exporters =
                    Put(@, exporterName,
                        [access_token |-> "${SPLUNK_ACCESS_TOKEN}",
                         endpoint |-> <<"https://ingest.">> \o realm \o <<".signalfx.com/v2/trace">>]),
                !.Service.Pipelines =
                    Put(@, splunkTracesPipelineName(dest), Pipeline(<<>>, <<exporterName>>))]
    ELSE cfg

\* -------------------------------------------------------------------------
\* Grafana Cloud Loki
\* -------------------------------------------------------------------------
lokiPushPath == <<"/loki/api/v1/push">>

\* grafanaLokiUrlFromInput: [err, value]
grafanaLokiUrlFromInput(input) ==
    LET rawUrl == TrimSpace(input)
        urlWithScheme == IF ~Contains(rawUrl, "://") THEN <<"https", "://">> \o rawUrl ELSE rawUrl
        parsedUrl == urlParse(urlWithScheme)
        withPath == IF parsedUrl.Path = <<>> THEN [parsedUrl EXCEPT !.Path = lokiPushPath]
                    ELSE parsedUrl
    IN  IF parsedUrl.err THEN [err |-> TRUE, value |-> <<>>]
        ELSE IF parsedUrl.Scheme # "https" THEN [err |-> TRUE, value |-> <<>>]
        ELSE IF withPath.Path # lokiPushPath THEN [err |-> TRUE, value |-> <<>>]
        ELSE IF withPath.User # NoUser THEN [err |-> TRUE, value |-> <<>>]
        ELSE [err |-> FALSE, value |-> urlString(withPath)]

\* the processor generated from a label list: "transform/grafana-" + destName
lokiProcessorName(destName) ==
    <<"t", "r", "a", "n", "s", "f", "o", "r", "m", "/", "g", "r", "a", "f", "a", "n", "a", "-">> \o destName

\* lokiLabelsProcessors: [err, value], value the generated processors by name
lokiLabelsProcessors(rawLabels, exists, destName) ==
    IF ~exists THEN [err |-> FALSE, value |-> EmptyMap]
    ELSE IF rawLabels = <<>> \/ rawLabels = <<"[", "]">> THEN [err |-> FALSE, value |-> EmptyMap]
    ELSE LET attributeNames == jsonUnmarshalStrings(rawLabels)
         IN  IF attributeNames.err THEN [err |-> TRUE, value |-> EmptyMap]
             ELSE [err |-> FALSE,
                   value |-> Put(EmptyMap, lokiProcessorName(destName),
                                 [log_statements |->
                                     <<[context |-> "log",
                                        statements |->
                                            [i \in DOMAIN attributeNames.value |->
                                                <<"set(attributes[\"", attributeNames.value[i],
                                                  "\"], resource.attributes[\"",
                                                  attributeNames.value[i], "\"])">>]]>>])]

\* "basicauth/grafana" + dest.Name
lokiAuthExtensionName(dest) ==
    <<"b", "a", "s", "i", "c", "a", "u", "t", "h", "/", "g", "r", "a", "f", "a", "n", "a">> \o dest.Name

\* "loki/grafana-" + dest.Name
lokiExporterName(dest) ==
    <<"l", "o", "k", "i", "/", "g", "r", "a", "f", "a", "n", "a", "-">> \o dest.Name

\* "logs/grafana-" + dest.Name
lokiLogsPipelineName(dest) ==
    <<"l", "o", "g", "s", "/", "g", "r", "a", "f", "a", "n", "a", "-">> \o dest.Name

\* a ModifyConfig that forgets to declare the authenticator extension
lokiAddAuthExtensionForgotten(extensions, authExtensionName, lokiUsername) == extensions

\* currentConfig.Extensions[authExtensionName] = ...
lokiAddAuthExtension(extensions, authExtensionName, lokiUsername) ==
    Put(extensions, authExtensionName,
        [client_auth |-> [username |-> lokiUsername, password |-> "${GRAFANA_CLOUD_LOKI_PASSWORD}"]])

\* an assignment in place of the append
lokiEnableExtensionOverwrite(serviceExtensions, authExtensionName) == <<authExtensionName>>

\* currentConfig.Service.Extensions = append(currentConfig.Service.Extensions, authExtensionName)
lokiEnableExtension(serviceExtensions, authExtensionName) ==
    Append(serviceExtensions, authExtensionName)

\* for k, v := range processors { currentConfig.Processors[k] = v }
addProcessors(processors, generated) ==
    [k \in (DOMAIN processors) \cup (DOMAIN generated) |->
        IF k \in DOMAIN generated THEN generated[k] ELSE processors[k]]

\* the configurations ModifyConfig may leave, one per visiting order of the range loop
GrafanaCloudLokiModifyConfig(dest, cfg) ==
    IF ~isLoggingEnabled(dest) THEN {cfg}
    ELSE IF ~Has(dest.Data, grafanaCloudLokiEndpointKey) THEN {cfg}
    ELSE LET lokiExporterEndpoint == grafanaLokiUrlFromInput(dest.Data[grafanaCloudLokiEndpointKey])
             lokiUsername == Get(dest.Data, grafanaCloudLokiUsernameKey)
             lokiProcessors == lokiLabelsProcessors(Get(dest.Data, grafanaCloudLokiLabelsKey),
                                                    Has(dest.Data, grafanaCloudLokiLabelsKey),
                                                    dest.Name)
             authExtensionName == lokiAuthExtensionName(dest)
             exporterName == lokiExporterName(dest)
         IN  IF lokiExporterEndpoint.err THEN {cfg}
             ELSE IF ~Has(dest.Data, grafanaCloudLokiUsernameKey) THEN {cfg}
             ELSE IF lokiProcessors.err THEN {cfg}
             ELSE { [Exporters |->
                        Put(cfg.Exporters, exporterName,
                            [endpoint |-> lokiExporterEndpoint.value,
                             auth |-> [authenticator |-> authExtensionName]]),
                     Processors |-> addProcessors(cfg.Processors, lokiProcessors.value),
                     Extensions |-> lokiAddAuthExtension(cfg.Extensions, authExtensionName, lokiUsername),
                     Service |->
                        [Extensions |-> lokiEnableExtension(cfg.Service.Extensions, authExtensionName),
                         Pipelines |->
                            Put(cfg.Service.Pipelines, lokiLogsPipelineName(dest),
                                Pipeline(processorNames, <<exporterName>>))]]
                    : processorNames \in RangeOrders(lokiProcessors.value) }

\* -------------------------------------------------------------------------
\* Grafana Cloud Prometheus
\* -------------------------------------------------------------------------
promPushPath == <<"/api/prom/push">>

\* validateGrafanaPrometheusUrl: TRUE when it returns an error
validateGrafanaPrometheusUrl(input) ==
    LET parsedUrl == urlParse(input)
    IN  IF parsedUrl.err THEN TRUE
        ELSE IF parsedUrl.Scheme # "https" THEN TRUE
        ELSE IF parsedUrl.Path # promPushPath THEN TRUE
        ELSE FALSE

\* "transform/grafana-" + destName
promProcessorName(destName) ==
    <<"t", "r", "a", "n", "s", "f", "o", "r", "m", "/", "g", "r", "a", "f", "a", "n", "a", "-">> \o destName

\* promResourceAttributesProcessors: [err, value], value the generated processors by name
promResourceAttributesProcessors(rawLabels, exists, destName) ==
    IF ~exists THEN [err |-> FALSE, value |-> EmptyMap]
    ELSE IF rawLabels = <<>> \/ rawLabels = <<"[", "]">> THEN [err |-> FALSE, value |-> EmptyMap]
    ELSE LET attributeNames == jsonUnmarshalStrings(rawLabels)
         IN  IF attributeNames.err THEN [err |-> TRUE, value |-> EmptyMap]
             ELSE [err |-> FALSE,
                   value |-> Put(EmptyMap, promProcessorName(destName),
                                 [metric_statements |->
                                     <<[context |-> "datapoint",
                                        statements |->
                                            [i \in DOMAIN attributeNames.value |->
                                                <<"set(attributes[\"", attributeNames.value[i],
                                                  "\"], resource.attributes[\"",
                                                  attributeNames.value[i], "\"])">>]]>>])]

\* "basicauth/grafana" + dest.Name
promAuthExtensionName(dest) ==
    <<"b", "a", "s", "i", "c", "a", "u", "t", "h", "/", "g", "r", "a", "f", "a", "n", "a">> \o dest.Name

\* "prometheusremotewrite/grafana-" + dest.Name
promExporterName(dest) ==
    <<"p", "r", "o", "m", "e", "t", "h", "e", "u", "s", "r", "e", "m", "o", "t", "e", "w", "r", "i", "t", "e", "/", "g", "r", "a", "f", "a", "n", "a", "-">> \o dest.Name

\* "metrics/grafana-" + dest.Name
promMetricsPipelineName(dest) ==
    <<"m", "e", "t", "r", "i", "c", "s", "/", "g", "r", "a", "f", "a", "n", "a", "-">> \o dest.Name

\* the configurations ModifyConfig may leave, one per visiting order of the range loop
GrafanaCloudPrometheusModifyConfig(dest, cfg) ==
    IF ~isMetricsEnabled(dest) THEN {cfg}
    ELSE IF ~Has(dest.Data, grafanaCloudPrometheusRWurlKey) THEN {cfg}
    ELSE LET promRwUrl == dest.Data[grafanaCloudPrometheusRWurlKey]
             prometheusUsername == Get(dest.Data, grafanaCloudPrometheusUserKey)
             processors == promResourceAttributesProcessors(
                               Get(dest.Data, prometheusResourceAttributesLabelsKey),
                               Has(dest.Data, prometheusResourceAttributesLabelsKey),
                               dest.Name)
             authExtensionName == promAuthExtensionName(dest)
             \* the extension is stored before the external labels are decoded
             withExtension ==
                [cfg EXCEPT !.Extensions =
                    Put(@, authExtensionName,
                        [client_auth |-> [username |-> prometheusUsername,
                                          password |-> "${GRAFANA_CLOUD_PROMETHEUS_PASSWORD}"]])]
             hasLabels == Has(dest.Data, prometheusExternalLabelsKey)
             labels == jsonUnmarshalMap(Get(dest.Data, prometheusExternalLabelsKey))
             exporterBase == [endpoint |-> promRwUrl,
                              add_metric_suffixes |-> FALSE,
                              auth |-> [authenticator |-> authExtensionName]]
             exporterConf == IF hasLabels
                             THEN [k \in {"endpoint", "add_metric_suffixes", "auth", "external_labels"} |->
                                     IF k = "external_labels" THEN labels.value ELSE exporterBase[k]]
                             ELSE exporterBase
             rwExporterName == promExporterName(dest)
         IN  IF validateGrafanaPrometheusUrl(promRwUrl) THEN {cfg}
             ELSE IF ~Has(dest.Data, grafanaCloudPrometheusUserKey) THEN {cfg}
             ELSE IF processors.err THEN {cfg}
             ELSE IF hasLabels /\ labels.err THEN {withExtension}
             ELSE { [Exporters |-> Put(cfg.Exporters, rwExporterName, exporterConf),
                     Processors |-> addProcessors(cfg.Processors, processors.value),
                     Extensions |-> withExtension.Extensions,
                     Service |->
                        [Extensions |-> Append(cfg.Service.Extensions, authExtensionName),
                         Pipelines |->
                            Put(cfg.Service.Pipelines, promMetricsPipelineName(dest),
                                Pipeline(processorNames, <<rwExporterName>>))]]
                    : processorNames \in RangeOrders(processors.value) }

\* -------------------------------------------------------------------------
\* The destinations of the cluster
\* -------------------------------------------------------------------------
Names == {<<"a">>, <<"b">>}

SignalSets == {{}, {TRACES}, {METRICS}, {LOGS}, {TRACES, METRICS, LOGS}}

Destination(name, type, data, signals) ==
    [Name |-> name, Type |-> type, Data |-> data, Signals |-> signals]

\* a field mapping with the given keys taken from a full one
Fields(full, keys) == [k \in keys |-> full[k]]

RawUrls ==
    { <<"https", "://", Host>>,
      <<"https", "://", Host, "/loki/api/v1/push">>,
      <<"https", "://", Host, "/api/prom/push">>,
      <<"http", "://", Host, "/loki/api/v1/push">>,
      <<"http", "://", Host, "/api/prom/push">>,
      <<"https", "://", "u:p", "@", Host, "/loki/api/v1/push">>,
      <<"https", "://", "u:p", "@", Host, "/api/prom/push">>,
      <<Host>>,
      <<"u:p", "@", Host, "/loki/api/v1/push">>,
      <<" ", "https", "://", Host, "/loki/api/v1/push">>,
      <<"https", "://", Host, "/other">>,
      <<"https", "://", Host, "%zz">> }

RawLabelLists ==
    { <<>>, <<"[", "]">>, <<"[", "service.name", "]">>, <<"[", "service.name", ",", "k8s.pod.name", "]">>,
      <<"[", "service.name">>, <<"{", "}">>, <<"oops">> }

RawLabelMaps ==
    { <<"{", "env", ":", "prod", "}">>, <<"{", "}">>, <<"[", "]">>, <<"oops">>, <<>> }

QuickwitDestinations ==
    { Destination(n, QuickwitDestinationType, d, sig) :
        n \in Names, sig \in SignalSets,
        d \in {EmptyMap, [k \in {qwUrlKey} |-> <<"quickwit:7281">>]} }

NewRelicDestinations ==
    { Destination(n, NewRelicDestinationType, d, sig) :
        n \in Names, sig \in SignalSets,
        d \in {EmptyMap, [k \in {newRelicEndpoint} |-> <<"https://otlp.nr-data.net">>]} }

SentryDestinations ==
    { Destination(n, SentryDestinationType, EmptyMap, sig) : n \in Names, sig \in SignalSets }

SplunkDestinations ==
    { Destination(n, SplunkDestinationType, d, sig) :
        n \in Names, sig \in SignalSets,
        d \in {EmptyMap, [k \in {splunkRealm} |-> <<"us0">>]} }

LokiKeys == {grafanaCloudLokiEndpointKey, grafanaCloudLokiUsernameKey, grafanaCloudLokiLabelsKey}

LokiGoodData ==
    [k \in LokiKeys |->
        CASE k = grafanaCloudLokiEndpointKey -> <<"https", "://", Host>>
          [] k = grafanaCloudLokiUsernameKey -> <<"123456">>
          [] k = grafanaCloudLokiLabelsKey -> <<"[", "service.name", "]">>]

\* the good field mapping with one field changed or removed
LokiData ==
    {LokiGoodData}
    \cup {Fields(LokiGoodData, LokiKeys \ {k}) : k \in LokiKeys}
    \cup {[LokiGoodData EXCEPT ![grafanaCloudLokiEndpointKey] = u] : u \in RawUrls}
    \cup {[LokiGoodData EXCEPT ![grafanaCloudLokiLabelsKey] = l] : l \in RawLabelLists}

GrafanaCloudLokiDestinations ==
    { Destination(n, GrafanaCloudLokiDestinationType, d, {LOGS}) : n \in Names, d \in LokiData }
    \cup { Destination(n, GrafanaCloudLokiDestinationType, LokiGoodData, sig) :
            n \in Names, sig \in SignalSets }

PromKeys == {grafanaCloudPrometheusRWurlKey, grafanaCloudPrometheusUserKey,
             prometheusResourceAttributesLabelsKey, prometheusExternalLabelsKey}

PromGoodData ==
    [k \in PromKeys |->
        CASE k = grafanaCloudPrometheusRWurlKey -> <<"https", "://", Host, "/api/prom/push">>
          [] k = grafanaCloudPrometheusUserKey -> <<"654321">>
          [] k = prometheusResourceAttributesLabelsKey -> <<"[", "service.name", "]">>
          [] k = prometheusExternalLabelsKey -> <<"{", "env", ":", "prod", "}">>]

PromData ==
    {PromGoodData}
    \cup {Fields(PromGoodData, PromKeys \ {k}) : k \in PromKeys}
    \cup {[PromGoodData EXCEPT ![grafanaCloudPrometheusRWurlKey] = u] : u \in RawUrls}
    \cup {[PromGoodData EXCEPT ![prometheusResourceAttributesLabelsKey] = l] : l \in RawLabelLists}
    \cup {[PromGoodData EXCEPT ![prometheusExternalLabelsKey] = l] : l \in RawLabelMaps}

GrafanaCloudPrometheusDestinations ==
    { Destination(n, GrafanaCloudPrometheusDestinationType, d, {METRICS}) : n \in Names, d \in PromData }
    \cup { Destination(n, GrafanaCloudPrometheusDestinationType, PromGoodData, sig) :
            n \in Names, sig \in SignalSets }

Destinations ==
    QuickwitDestinations \cup NewRelicDestinations \cup SentryDestinations \cup SplunkDestinations
    \cup GrafanaCloudLokiDestinations \cup GrafanaCloudPrometheusDestinations

\* -------------------------------------------------------------------------
\* The synthesis pass: one ModifyConfig call per destination
\* -------------------------------------------------------------------------
\* the adapter registered for the destination's type
ModifyConfig(dest, cfg) ==
    CASE dest.Type = QuickwitDestinationType -> {QuickwitModifyConfig(dest, cfg)}
      [] dest.Type = NewRelicDestinationType -> {NewRelicModifyConfig(dest, cfg)}
      [] dest.Type = SentryDestinationType -> {SentryModifyConfig(dest, cfg)}
      [] dest.Type = SplunkDestinationType -> {SplunkModifyConfig(dest, cfg)}
      [] dest.Type = GrafanaCloudLokiDestinationType -> GrafanaCloudLokiModifyConfig(dest, cfg)
      [] dest.Type = GrafanaCloudPrometheusDestinationType -> GrafanaCloudPrometheusModifyConfig(dest, cfg)

\* destination names are unique in the cluster
Fresh(dest) ==
    /\ Len(processed) < MaxDests
    /\ \A i \in DOMAIN processed : processed[i].Name # dest.Name

\* the call is recorded: the configuration it started from and its destination
Called(dest) ==
    /\ before' = currentConfig
    /\ processed' = Append(processed, dest)
    /\ UNCHANGED syncVars

Quickwit ==
    \E dest \in QuickwitDestinations :
        /\ Fresh(dest)
        /\ currentConfig' = QuickwitModifyConfig(dest, currentConfig)
        /\ Called(dest)

NewRelic ==
    \E dest \in NewRelicDestinations :
        /\ Fresh(dest)
        /\ currentConfig' = NewRelicModifyConfig(dest, currentConfig)
        /\ Called(dest)

Sentry ==
    \E dest \in SentryDestinations :
        /\ Fresh(dest)
        /\ currentConfig' = SentryModifyConfig(dest, currentConfig)
        /\ Called(dest)

Splunk ==
    \E dest \in SplunkDestinations :
        /\ Fresh(dest)
        /\ currentConfig' = SplunkModifyConfig(dest, currentConfig)
        /\ Called(dest)

GrafanaCloudLoki ==
    \E dest \in GrafanaCloudLokiDestinations :
        /\ Fresh(dest)
        /\ currentConfig' \in GrafanaCloudLokiModifyConfig(dest, currentConfig)
        /\ Called(dest)

GrafanaCloudPrometheus ==
    \E dest \in GrafanaCloudPrometheusDestinations :
        /\ Fresh(dest)
        /\ currentConfig' \in GrafanaCloudPrometheusModifyConfig(dest, currentConfig)
        /\ Called(dest)

SyncIdle ==
    /\ pc = "idle" /\ collectorGroups = <<>> /\ listed = <<>> /\ calls = <<>> /\ err = "nil"
    /\ dep = [ReadyReplicas |-> 0]
    /\ cluster = [ConfigMap |-> 0, Service |-> 0, Deployment |-> 0, Status |-> 0, Ready |-> "unset"]
    /\ startCluster = cluster
    /\ passes = 0

Init ==
    /\ currentConfig = EmptyConfig
    /\ before = EmptyConfig
    /\ processed = <<>>
    /\ SyncIdle

Next ==
    \/ Quickwit
    \/ NewRelic
    \/ Sentry
    \/ Splunk
    \/ GrafanaCloudLoki
    \/ GrafanaCloudPrometheus

Spec == Init /\ [][Next]_vars

\* -------------------------------------------------------------------------
\* gateway.Sync: one reconciliation pass, one action per cluster I/O call
\* -------------------------------------------------------------------------
CollectorsGroupRoleClusterGateway == "CLUSTER_GATEWAY"
CollectorsGroupRoleNodeCollector == "NODE_COLLECTOR"
Roles == {CollectorsGroupRoleClusterGateway, CollectorsGroupRoleNodeCollector}

GroupLists == UNION {[1..n -> Roles] : n \in 0..MaxGroups}

\* a loop that takes the first collectors group whatever its role
FindGatewayAnyRole(items) == IF Len(items) > 0 THEN 1 ELSE 0

\* the index of the first item whose role is the cluster gateway, 0 for a nil gatewayCollectorGroup
FindGateway(items) ==
    IF \E i \in DOMAIN items : items[i] = CollectorsGroupRoleClusterGateway
    THEN CHOOSE i \in DOMAIN items :
            /\ items[i] = CollectorsGroupRoleClusterGateway
            /\ \A j \in 1..(i - 1) : items[j] # CollectorsGroupRoleClusterGateway
    ELSE 0

\* a comparison that is off by one: fmt.Sprintf("%t", dep.Status.ReadyReplicas >= 0)
ReadyAtLeastZero(d) == IF d.ReadyReplicas >= 0 THEN "true" ELSE "false"

\* fmt.Sprintf("%t", dep.Status.ReadyReplicas > 0)
Ready(d) == IF d.ReadyReplicas > 0 THEN "true" ELSE "false"

\* a syncGateway that logs a failed syncService and goes on
afterSyncServiceIgnoringError(ok) == "syncDeployment"

\* if err != nil { return err } after syncService
afterSyncService(ok) == IF ok THEN "syncDeployment" ELSE "done"

\* what a successful apply of syncConfigMap, syncService, syncDeployment or of the status
\* patch leaves in the cluster: the object as written by this pass
Apply(c, object, pass) == [c EXCEPT ![object] = pass]

Record(call, ok) == calls' = Append(calls, [call |-> call, ok |-> ok])

\* `if err := ...; err != nil { return err }`
Return(call, ok, next) ==
    /\ pc' = IF ok THEN next ELSE "done"
    /\ err' = IF ok THEN err ELSE call

\* the controller runtime invokes Sync on a cluster change
StartPass ==
    /\ pc \in {"idle", "done"}
    /\ passes < MaxPasses
    /\ passes' = passes + 1
    /\ collectorGroups' \in GroupLists
    /\ pc' = "listCollectorGroups"
    /\ listed' = <<>>
    /\ calls' = <<>>
    /\ err' = "nil"
    /\ dep' = [ReadyReplicas |-> 0]
    /\ startCluster' = cluster
    /\ UNCHANGED <<cluster, synthVars>>

ListCollectorGroups ==
    /\ pc = "listCollectorGroups"
    /\ \E ok \in BOOLEAN :
        /\ Record("ListCollectorGroups", ok)
        /\ listed' = IF ok THEN collectorGroups ELSE <<>>
        /\ IF ok /\ FindGateway(listed') = 0
           THEN pc' = "done" /\ err' = "nil"
           ELSE Return("ListCollectorGroups", ok, "listDestinations")
    /\ UNCHANGED <<collectorGroups, dep, cluster, startCluster, passes, synthVars>>

ListDestinations ==
    /\ pc = "listDestinations"
    /\ \E ok \in BOOLEAN :
        /\ Record("ListDestinations", ok)
        /\ Return("ListDestinations", ok, "listProcessors")
    /\ UNCHANGED <<collectorGroups, listed, dep, cluster, startCluster, passes, synthVars>>

ListProcessors ==
    /\ pc = "listProcessors"
    /\ \E ok \in BOOLEAN :
        /\ Record("ListProcessors", ok)
        /\ Return("ListProcessors", ok, "getOdigosConfig")
    /\ UNCHANGED <<collectorGroups, listed, dep, cluster, startCluster, passes, synthVars>>

GetOdigosConfig ==
    /\ pc = "getOdigosConfig"
    /\ \E ok \in BOOLEAN :
        /\ Record("GetOdigosConfig", ok)
        /\ Return("GetOdigosConfig", ok, "syncConfigMap")
    /\ UNCHANGED <<collectorGroups, listed, dep, cluster, startCluster, passes, synthVars>>

\* syncConfigMap: applies the ConfigMap, or fails and leaves it
SyncConfigMap ==
    /\ pc = "syncConfigMap"
    /\ \E ok \in BOOLEAN :
        /\ Record("syncConfigMap", ok)
        /\ Return("syncConfigMap", ok, "syncService")
        /\ cluster' = IF ok THEN Apply(cluster, "ConfigMap", passes) ELSE cluster
    /\ UNCHANGED <<collectorGroups, listed, dep, startCluster, passes, synthVars>>

\* syncService: applies the Service, or fails and leaves it
SyncService ==
    /\ pc = "syncService"
    /\ \E ok \in BOOLEAN :
        /\ Record("syncService", ok)
        /\ pc' = afterSyncService(ok)
        /\ err' = IF ok THEN err ELSE "syncService"
        /\ cluster' = IF ok THEN Apply(cluster, "Service", passes) ELSE cluster
    /\ UNCHANGED <<collectorGroups, listed, dep, startCluster, passes, synthVars>>

\* syncDeployment: applies the Deployment and returns it, or fails and leaves it
SyncDeployment ==
    /\ pc = "syncDeployment"
    /\ \E ok \in BOOLEAN, ready \in 0..MaxReplicas :
        /\ Record("syncDeployment", ok)
        /\ Return("syncDeployment", ok, "patchStatus")
        /\ cluster' = IF ok THEN Apply(cluster, "Deployment", passes) ELSE cluster
        /\ dep' = IF ok THEN [ReadyReplicas |-> ready] ELSE dep
    /\ UNCHANGED <<collectorGroups, listed, startCluster, passes, synthVars>>

\* return c.Status().Patch(ctx, gateway, `{"status": { "ready": %t }}`)
PatchStatus ==
    /\ pc = "patchStatus"
    /\ \E ok \in BOOLEAN :
        /\ calls' = Append(calls, [call |-> "PatchStatus", ok |-> ok, ready |-> Ready(dep)])
        /\ pc' = "done"
        /\ err' = IF ok THEN "nil" ELSE "PatchStatus"
        /\ cluster' = IF ok THEN Apply(Apply(cluster, "Ready", Ready(dep)), "Status", passes) ELSE cluster
    /\ UNCHANGED <<collectorGroups, listed, dep, startCluster, passes, synthVars>>

SyncNext ==
    \/ StartPass
    \/ ListCollectorGroups
    \/ ListDestinations
    \/ ListProcessors
    \/ GetOdigosConfig
    \/ SyncConfigMap
    \/ SyncService
    \/ SyncDeployment
    \/ PatchStatus

SyncSpec == Init /\ [][SyncNext]_vars

\* =========================================================================
\* Properties of the reconciliation pass (SyncSpec)
\* =========================================================================
WasCalled(call) == \E i \in DOMAIN calls : calls[i].call = call
Succeeded(call) == \E i \in DOMAIN calls : calls[i].call = call /\ calls[i].ok
Failed(call) == \E i \in DOMAIN calls : calls[i].call = call /\ ~calls[i].ok

FetchAndApplyCalls ==
    {"ListCollectorGroups", "ListDestinations", "ListProcessors", "GetOdigosConfig",
     "syncConfigMap", "syncService", "syncDeployment"}
ApplyCalls == {"syncConfigMap", "syncService", "syncDeployment"}

\* the object was written by the current pass
Changed(object) == cluster[object] # startCluster[object]
StatusChanged == Changed("Status") \/ Changed("Ready")

NoGatewayListed ==
    /\ calls # <<>> /\ calls[1].ok
    /\ \A i \in DOMAIN listed : listed[i] # "CLUSTER_GATEWAY"

\* C1: when the three apply steps of a pass succeed, the status patch carries
\* ready = true exactly when the Deployment returned by syncDeployment has
\* ReadyReplicas > 0 (false when it is 0), and a successful patch stores that
\* value; in a pass where a fetch or one of the three apply steps fails, the
\* status is never patched.
C1_ReadyIffReadyReplicas ==
    /\ (\A c \in ApplyCalls : Succeeded(c)) /\ pc = "done" =>
            /\ WasCalled("PatchStatus")
            /\ \A i \in DOMAIN calls : calls[i].call = "PatchStatus" =>
                    /\ (calls[i].ready = "true") <=> (dep.ReadyReplicas > 0)
                    /\ (calls[i].ready = "false") <=> (dep.ReadyReplicas = 0)
                    /\ calls[i].ok => cluster.Ready = calls[i].ready /\ cluster.Status = passes
    /\ (\E c \in FetchAndApplyCalls : Failed(c)) =>
            ~WasCalled("PatchStatus") /\ ~StatusChanged

C1_Witness ==
    /\ pc = "done" /\ Succeeded("PatchStatus")
    /\ dep.ReadyReplicas = 0 /\ cluster.Ready = "false"
    /\ startCluster.Ready = "true"

\* C2 as stated: a pass that returns an error has changed none of the
\* ConfigMap, Service, Deployment or gateway status.
C2_NoPartialApply ==
    pc = "done" /\ err # "nil" =>
        ~Changed("ConfigMap") /\ ~Changed("Service") /\ ~Changed("Deployment") /\ ~StatusChanged

\* C2 amended: a pass whose I/O call fails returns that call's error at once:
\* the failing call is the last call of the pass and every call before it
\* succeeded; an object is changed by the pass exactly when its own apply
\* step ran and succeeded before the failure, so a failing fetch leaves all
\* four objects unchanged and the failing step changes nothing.
C2_AbortsAtFirstFailure ==
    pc = "done" /\ err # "nil" =>
        /\ calls # <<>>
        /\ calls[Len(calls)].call = err /\ ~calls[Len(calls)].ok
        /\ \A i \in 1..(Len(calls) - 1) : calls[i].ok
        /\ Changed("ConfigMap") <=> Succeeded("syncConfigMap")
        /\ Changed("Service") <=> Succeeded("syncService")
        /\ Changed("Deployment") <=> Succeeded("syncDeployment")
        /\ ~StatusChanged
        /\ err \notin ApplyCalls \cup {"PatchStatus"} =>
                ~Changed("ConfigMap") /\ ~Changed("Service") /\ ~Changed("Deployment")

C2_Witness ==
    /\ pc = "done" /\ err = "syncService"
    /\ Changed("ConfigMap") /\ ~Changed("Service") /\ ~Changed("Deployment")

\* C3: when the listed collector groups hold no cluster-gateway group, Sync
\* returns nil having made no other call than the listing of the collector
\* groups, and the ConfigMap, Service, Deployment and status are as they were
\* before the pass, however often the pass is repeated.
C3_NoGatewayNoAction ==
    NoGatewayListed =>
        /\ pc = "done" /\ err = "nil"
        /\ Len(calls) = 1 /\ calls[1].call = "ListCollectorGroups"
        /\ cluster = startCluster
        /\ dep = [ReadyReplicas |-> 0]

C3_Witness ==
    /\ NoGatewayListed /\ listed # <<>> /\ pc = "done"
    /\ passes = 2
    /\ cluster.ConfigMap = 1 /\ cluster.Status = 1

\* =========================================================================
\* Properties of the destination adapters (Spec)
\* =========================================================================
LastDest == processed[Len(processed)]

\* the configurations a synthesis pass over dests, in that order, can end with
RECURSIVE SynthesisResults(_)
SynthesisResults(dests) ==
    IF dests = <<>> THEN {EmptyConfig}
    ELSE UNION { ModifyConfig(dests[Len(dests)], c) :
                    c \in SynthesisResults(SubSeq(dests, 1, Len(dests) - 1)) }

Orders(dests) ==
    { [i \in DOMAIN dests |-> dests[p[i]]] :
        p \in {q \in [DOMAIN dests -> DOMAIN dests] : \A i, j \in DOMAIN q : i # j => q[i] # q[j]} }

Count(seq, x) == Cardinality({i \in DOMAIN seq : seq[i] = x})
IsPermutation(s, u) ==
    /\ Len(s) = Len(u)
    /\ \A i \in DOMAIN s : Count(s, s[i]) = Count(u, s[i])

\* C4: no dangling reference: every exporter and processor a pipeline names
\* is a key of Exporters / Processors, and every enabled extension is a key
\* of Extensions.
C4_NoDanglingReference ==
    /\ \A p \in DOMAIN currentConfig.Service.Pipelines :
        /\ \A i \in DOMAIN currentConfig.Service.Pipelines[p].Exporters :
                currentConfig.Service.Pipelines[p].Exporters[i] \in DOMAIN currentConfig.Exporters
        /\ \A i \in DOMAIN currentConfig.Service.Pipelines[p].Processors :
                currentConfig.Service.Pipelines[p].Processors[i] \in DOMAIN currentConfig.Processors
    /\ \A i \in DOMAIN currentConfig.Service.Extensions :
            currentConfig.Service.Extensions[i] \in DOMAIN currentConfig.Extensions

C4_Witness ==
    /\ Len(processed) = 2
    /\ Len(currentConfig.Service.Extensions) = 2
    /\ \E p \in DOMAIN currentConfig.Service.Pipelines :
            currentConfig.Service.Pipelines[p].Processors # <<>>
    /\ Cardinality(DOMAIN currentConfig.Exporters) = 2

\* the destination lacks a field its adapter requires
MissingRequiredField(d) ==
    CASE d.Type = "quickwit" -> "QUICKWIT_URL" \notin DOMAIN d.Data
      [] d.Type = "newrelic" -> "NEWRELIC_ENDPOINT" \notin DOMAIN d.Data
      [] d.Type = "splunk" -> "SPLUNK_REALM" \notin DOMAIN d.Data
      [] d.Type = "grafanacloudloki" ->
            \/ "GRAFANA_CLOUD_LOKI_ENDPOINT" \notin DOMAIN d.Data
            \/ "GRAFANA_CLOUD_LOKI_USERNAME" \notin DOMAIN d.Data
      [] d.Type = "grafanacloudprometheus" ->
            \/ "GRAFANA_CLOUD_PROMETHEUS_RW_ENDPOINT" \notin DOMAIN d.Data
            \/ "GRAFANA_CLOUD_PROMETHEUS_USERNAME" \notin DOMAIN d.Data
      [] OTHER -> FALSE

\* C5: ModifyConfig on a destination that lacks a required field leaves the
\* merged configuration exactly as it was, and the configuration of the pass
\* is the one the pass yields without the destinations that lack a field.
C5_MissingFieldContributesNothing ==
    /\ processed # <<>> /\ MissingRequiredField(LastDest) => currentConfig = before
    /\ currentConfig \in SynthesisResults(SelectSeq(processed, LAMBDA d : ~MissingRequiredField(d)))

C5_Witness ==
    /\ Len(processed) = 2
    /\ MissingRequiredField(LastDest)
    /\ LastDest.Type = "grafanacloudloki" /\ LastDest.Signals = {"LOGS"}
    /\ "GRAFANA_CLOUD_LOKI_ENDPOINT" \in DOMAIN LastDest.Data
    /\ before # EmptyConfig /\ currentConfig = before

\* the vendor prefix an adapter puts in its pipeline names
VendorOf(type) ==
    CASE type = "quickwit" -> <<"q", "u", "i", "c", "k", "w", "i", "t">>
      [] type = "newrelic" -> <<"n", "e", "w", "r", "e", "l", "i", "c">>
      [] type = "sentry" -> <<"s", "e", "n", "t", "r", "y">>
      [] type = "splunk" -> <<"s", "p", "l", "u", "n", "k">>
      [] type = "grafanacloudloki" -> <<"g", "r", "a", "f", "a", "n", "a">>
      [] type = "grafanacloudprometheus" -> <<"g", "r", "a", "f", "a", "n", "a">>

SignalText(sig) ==
    CASE sig = "TRACES" -> <<"t", "r", "a", "c", "e", "s">>
      [] sig = "METRICS" -> <<"m", "e", "t", "r", "i", "c", "s">>
      [] sig = "LOGS" -> <<"l", "o", "g", "s">>

\* the signals an adapter builds pipelines for
HandledSignals(type) ==
    CASE type = "quickwit" -> {"TRACES", "LOGS"}
      [] type = "newrelic" -> {"TRACES", "METRICS", "LOGS"}
      [] type = "sentry" -> {"TRACES"}
      [] type = "splunk" -> {"TRACES"}
      [] type = "grafanacloudloki" -> {"LOGS"}
      [] type = "grafanacloudprometheus" -> {"METRICS"}

SignalGate(sig, d) ==
    CASE sig = "TRACES" -> isTracingEnabled(d)
      [] sig = "METRICS" -> isMetricsEnabled(d)
      [] sig = "LOGS" -> isLoggingEnabled(d)

\* <signal>/<vendor>-<destinationName>
PipelineNameOf(sig, d) == SignalText(sig) \o <<"/">> \o VendorOf(d.Type) \o <<"-">> \o d.Name

\* C6: a pipeline <signal>/<vendor>-<destinationName> is present only when
\* the signal gate of that signal holds for the destination, and ModifyConfig
\* on a destination none of whose handled signals is enabled leaves the
\* merged configuration as it was.
C6_SignalGated ==
    /\ \A i \in DOMAIN processed : \A sig \in {"TRACES", "METRICS", "LOGS"} :
            PipelineNameOf(sig, processed[i]) \in DOMAIN currentConfig.Service.Pipelines
                => SignalGate(sig, processed[i])
    /\ processed # <<>> /\ (\A sig \in HandledSignals(LastDest.Type) : ~SignalGate(sig, LastDest))
            => currentConfig = before

\* the kind and the rest of a component name <kind>/<rest>
HasSlash(name) == \E i \in DOMAIN name : name[i] = "/"
FirstSlash(name) == CHOOSE i \in DOMAIN name : name[i] = "/" /\ \A j \in 1..(i - 1) : name[j] # "/"
KindOf(name) == SubSeq(name, 1, FirstSlash(name) - 1)
RestOf(name) == SubSeq(name, FirstSlash(name) + 1, Len(name))

\* the names the last ModifyConfig call added to a section
AddedExporters == DOMAIN currentConfig.Exporters \ DOMAIN before.Exporters
AddedProcessors == DOMAIN currentConfig.Processors \ DOMAIN before.Processors
AddedExtensions == DOMAIN currentConfig.Extensions \ DOMAIN before.Extensions
AddedPipelines == DOMAIN currentConfig.Service.Pipelines \ DOMAIN before.Service.Pipelines

Dashed(name, d) == HasSlash(name) /\ KindOf(name) # <<>> /\ RestOf(name) = VendorOf(d.Type) \o <<"-">> \o d.Name
Undashed(name, d) == HasSlash(name) /\ KindOf(name) # <<>> /\ RestOf(name) = VendorOf(d.Type) \o d.Name
Bare(name, d) == HasSlash(name) /\ KindOf(name) # <<>> /\ RestOf(name) = d.Name

PipelinesNamed ==
    \A n \in AddedPipelines :
        Dashed(n, LastDest) /\ KindOf(n) \in {SignalText(sig) : sig \in {"TRACES", "METRICS", "LOGS"}}

C8_OrderIndependent ==
    \A o \in Orders(processed) : SynthesisResults(o) = {currentConfig}

\* C8 amended: a pass over the same destinations in the same order always
\* yields the same merged configuration; in another order it yields the same
\* Exporters, Processors, Extensions and Service.Pipelines, and a
\* Service.Extensions list with the same entries, which are in the order the
\* destinations were processed in.
C8_OrderIndependentButExtensionsList ==
    /\ SynthesisResults(processed) = {currentConfig}
    /\ \A o \in Orders(processed) : \A c \in SynthesisResults(o) :
            /\ c.Exporters = currentConfig.Exporters
            /\ c.Processors = currentConfig.Processors
            /\ c.Extensions = currentConfig.Extensions
            /\ c.Service.Pipelines = currentConfig.Service.Pipelines
            /\ IsPermutation(c.Service.Extensions, currentConfig.Service.Extensions)

C8_Witness ==
    /\ Len(processed) = 2
    /\ processed[1].Type = "grafanacloudloki" /\ processed[2].Type = "grafanacloudprometheus"
    /\ Len(currentConfig.Service.Extensions) = 2
    /\ \E o \in Orders(processed) : \E c \in SynthesisResults(o) :
            c.Service.Extensions # currentConfig.Service.Extensions

\* a validation of the destination's fields fails inside its ModifyConfig
ValidationFails(d) ==
    CASE d.Type = "grafanacloudloki" ->
            /\ "LOGS" \in d.Signals
            /\ \/ /\ "GRAFANA_CLOUD_LOKI_ENDPOINT" \in DOMAIN d.Data
                  /\ grafanaLokiUrlFromInput(d.Data["GRAFANA_CLOUD_LOKI_ENDPOINT"]).err
               \/ /\ "GRAFANA_CLOUD_LOKI_LABELS" \in DOMAIN d.Data
                  /\ d.Data["GRAFANA_CLOUD_LOKI_LABELS"] \notin {<<>>, <<"[", "]">>}
                  /\ jsonUnmarshalStrings(d.Data["GRAFANA_CLOUD_LOKI_LABELS"]).err
      [] d.Type = "grafanacloudprometheus" ->
            /\ "METRICS" \in d.Signals
            /\ \/ /\ "GRAFANA_CLOUD_PROMETHEUS_RW_ENDPOINT" \in DOMAIN d.Data
                  /\ validateGrafanaPrometheusUrl(d.Data["GRAFANA_CLOUD_PROMETHEUS_RW_ENDPOINT"])
               \/ /\ "PROMETHEUS_RESOURCE_ATTRIBUTES_LABELS" \in DOMAIN d.Data
                  /\ d.Data["PROMETHEUS_RESOURCE_ATTRIBUTES_LABELS"] \notin {<<>>, <<"[", "]">>}
                  /\ jsonUnmarshalStrings(d.Data["PROMETHEUS_RESOURCE_ATTRIBUTES_LABELS"]).err
               \/ /\ "PROMETHEUS_RESOURCE_EXTERNAL_LABELS" \in DOMAIN d.Data
                  /\ jsonUnmarshalMap(d.Data["PROMETHEUS_RESOURCE_EXTERNAL_LABELS"]).err
      [] OTHER -> FALSE

\* C9: when a validation of the destination's fields fails, ModifyConfig
\* returns with the merged configuration unmodified.
C9_ValidationFailureLeavesConfig ==
    processed # <<>> /\ ValidationFails(LastDest) => currentConfig = before

HasUserInfo(tokens) == \E i \in DOMAIN tokens : tokens[i] \in {"u:p"}

\* the endpoint field an adapter validates as a URL
ValidatedEndpoint(d) ==
    CASE d.Type = "grafanacloudloki" -> Get(d.Data, "GRAFANA_CLOUD_LOKI_ENDPOINT")
      [] d.Type = "grafanacloudprometheus" -> Get(d.Data, "GRAFANA_CLOUD_PROMETHEUS_RW_ENDPOINT")
      [] OTHER -> <<>>

\* C10: a destination of Grafana Cloud Loki or Grafana Cloud Prometheus whose
\* endpoint URL embeds user-info is rejected (its ModifyConfig adds no
\* exporter), and no exporter's endpoint in the merged configuration
\* contains user-info.
C10_NoUserInfoInEndpoint ==
    /\ processed # <<>> /\ HasUserInfo(ValidatedEndpoint(LastDest)) => AddedExporters = {}
    /\ \A n \in DOMAIN currentConfig.Exporters :
            "endpoint" \in DOMAIN currentConfig.Exporters[n]
                => ~HasUserInfo(currentConfig.Exporters[n].endpoint)

====
